---- MODULE Spec2Model ----
(***************************************************************************)
(* Model of the decision core of Streamlit_Weather.py: wind chill, heat    *)
(* category, condition interpreter, duty / PT uniform, final training      *)
(* decision, and the four evaluation paths of main() that chain them.      *)
(*                                                                         *)
(* Number representation (Python floats become scaled integers):           *)
(*   temperatures (temp_f)      tenths of a degree F      50 F   ->  500   *)
(*   wind speed (wind_mph)      tenths of a mph           3 mph  ->   30   *)
(*   WBGT (wbgt_f)              hundredths of a degree F  81.9 F -> 8190   *)
(*   wind chill                 1/4000000 of a degree F (exact numerator   *)
(*                              of the closed-form polynomial, see         *)
(*                              wind_chill_f)                              *)
(* Python's None is the empty tuple; a present value v is <<v>>.           *)
(* The em dash of the decision strings is written "--".                    *)
(***************************************************************************)
EXTENDS Integers, Sequences, FiniteSets, TLC

VARIABLES pc, args, ret

vars == <<pc, args, ret>>

None == <<>>

Some(v) == <<v>>

\* ------------------------------------------------------------------ bounds
\* WBGT inputs of the classifier, in hundredths of a degree F.
WbgtLo == 7700

WbgtHi == 9100

\* Air temperatures, in tenths of a degree F: -TempBelowZero..TempAboveZero.
TempBelowZero == 400

TempAboveZero == 1100

Temps == (0 - TempBelowZero)..TempAboveZero

\* Wind speeds the weather provider reports, in tenths of a mph (>= 0).
WindSpeeds == {0, 10, 29, 30, 31, 50, 100, 150, 250, 400, 600}

\* ------------------------------------------------------------- wind chill
\* wind_mph ** 0.16, times 1000, rounded to the nearest integer.
pow_016(wind_mph) ==
    CASE wind_mph = 0 -> 0
      [] wind_mph = 10 -> 1000
      [] wind_mph = 29 -> 1186
      [] wind_mph = 30 -> 1192
      [] wind_mph = 31 -> 1198
      [] wind_mph = 50 -> 1294
      [] wind_mph = 100 -> 1445
      [] wind_mph = 150 -> 1542
      [] wind_mph = 250 -> 1674
      [] wind_mph = 400 -> 1804
      [] wind_mph = 600 -> 1925

\* One degree F of wind chill, in the unit of wind_chill_f's result.
WcDegree == 40000 * 100

\* Mutant: the temperature test is Tf >= 50 (no wind chill at exactly 50 F).
wind_chill_excludes50(Tf, wind_mph) ==
    IF Tf >= 500 \/ wind_mph <= 30 THEN None
    ELSE Some(142960000 + 248600 * Tf - 143000 * pow_016(wind_mph)
              + 171 * Tf * pow_016(wind_mph))

\* Mutant: the temperature test is missing (wind chill at any temperature).
wind_chill_no_temp_gate(Tf, wind_mph) ==
    IF wind_mph <= 30 THEN None
    ELSE Some(142960000 + 248600 * Tf - 143000 * pow_016(wind_mph)
              + 171 * Tf * pow_016(wind_mph))

\* wind_chill_f: None when Tf > 50 or wind <= 3, else
\* 35.74 + 0.6215 T - 35.75 V^0.16 + 0.4275 T V^0.16, every term multiplied
\* by WcDegree (T = Tf/10, V^0.16 = pow_016/1000).
wind_chill_f(Tf, wind_mph) ==
    IF Tf > 500 \/ wind_mph <= 30 THEN None
    ELSE Some(142960000 + 248600 * Tf - 143000 * pow_016(wind_mph)
              + 171 * Tf * pow_016(wind_mph))

\* ------------------------------------------------------------------- text
\* A text is a sequence of one-character strings; None and "" are both <<>>.
\* Upper-case letter -> lower-case letter.
ToLower ==
    ("A" :> "a") @@ ("B" :> "b") @@ ("C" :> "c") @@ ("D" :> "d") @@ ("E" :> "e") @@
    ("F" :> "f") @@ ("G" :> "g") @@ ("H" :> "h") @@ ("I" :> "i") @@ ("J" :> "j") @@
    ("K" :> "k") @@ ("L" :> "l") @@ ("M" :> "m") @@ ("N" :> "n") @@ ("O" :> "o") @@
    ("P" :> "p") @@ ("Q" :> "q") @@ ("R" :> "r") @@ ("S" :> "s") @@ ("T" :> "t") @@
    ("U" :> "u") @@ ("V" :> "v") @@ ("W" :> "w") @@ ("X" :> "x") @@ ("Y" :> "y") @@
    ("Z" :> "z")

\* Lower-case letter -> upper-case letter.
ToUpper ==
    ("a" :> "A") @@ ("b" :> "B") @@ ("c" :> "C") @@ ("d" :> "D") @@ ("e" :> "E") @@
    ("f" :> "F") @@ ("g" :> "G") @@ ("h" :> "H") @@ ("i" :> "I") @@ ("j" :> "J") @@
    ("k" :> "K") @@ ("l" :> "L") @@ ("m" :> "M") @@ ("n" :> "N") @@ ("o" :> "O") @@
    ("p" :> "P") @@ ("q" :> "Q") @@ ("r" :> "R") @@ ("s" :> "S") @@ ("t" :> "T") @@
    ("u" :> "U") @@ ("v" :> "V") @@ ("w" :> "W") @@ ("x" :> "X") @@ ("y" :> "Y") @@
    ("z" :> "Z")

IsUpper(ch) == ch \in DOMAIN ToLower

IsLower(ch) == ch \in DOMAIN ToUpper

LowerChar(ch) == IF IsUpper(ch) THEN ToLower[ch] ELSE ch

UpperChar(ch) == IF IsLower(ch) THEN ToUpper[ch] ELSE ch

RECURSIVE lower(_)
\* str.lower()
lower(s) == IF s = <<>> THEN <<>> ELSE <<LowerChar(Head(s))>> \o lower(Tail(s))

RECURSIVE upper(_)
\* str.upper()
upper(s) == IF s = <<>> THEN <<>> ELSE <<UpperChar(Head(s))>> \o upper(Tail(s))

IsLetter(ch) == IsUpper(ch) \/ IsLower(ch)

RECURSIVE title_from(_, _)
\* title_from(s, prev_is_letter): a letter that follows a non-letter is
\* upper-cased, every other letter is lower-cased.
title_from(s, prev_is_letter) ==
    IF s = <<>> THEN <<>>
    ELSE <<IF prev_is_letter THEN LowerChar(Head(s)) ELSE UpperChar(Head(s))>>
         \o title_from(Tail(s), IsLetter(Head(s)))

\* str.title()
title(s) == title_from(s, FALSE)

\* Python's `needle in hay` on strings.
Contains(needle, hay) ==
    \E i \in 0..(Len(hay) - Len(needle)) :
        \A k \in 1..Len(needle) : hay[i + k] = needle[k]

\* The string literals interpret_condition searches for.
S_thunder == <<"t", "h", "u", "n", "d", "e", "r">>

S_storm == <<"s", "t", "o", "r", "m">>

S_freezing_rain == <<"f", "r", "e", "e", "z", "i", "n", "g", " ", "r", "a", "i", "n">>

S_freezing == <<"f", "r", "e", "e", "z", "i", "n", "g">>

S_rain == <<"r", "a", "i", "n">>

S_sleet == <<"s", "l", "e", "e", "t">>

S_ice == <<"i", "c", "e">>

S_icy == <<"i", "c", "y">>

S_blizzard == <<"b", "l", "i", "z", "z", "a", "r", "d">>

S_heavy_snow == <<"h", "e", "a", "v", "y", " ", "s", "n", "o", "w">>

S_snow == <<"s", "n", "o", "w">>

S_flurr == <<"f", "l", "u", "r", "r">>

S_heavy_rain == <<"h", "e", "a", "v", "y", " ", "r", "a", "i", "n">>

S_torrential == <<"t", "o", "r", "r", "e", "n", "t", "i", "a", "l">>

S_shower == <<"s", "h", "o", "w", "e", "r">>

S_drizzle == <<"d", "r", "i", "z", "z", "l", "e">>

S_light_rain == <<"l", "i", "g", "h", "t", " ", "r", "a", "i", "n">>

S_fog == <<"f", "o", "g">>

S_mist == <<"m", "i", "s", "t">>

\* -------------------------------------------------- condition interpreter
\* interpret_condition: <<severity, note, override>>, first matching rule wins.
interpret_condition(cond_text) ==
    LET c == lower(IF cond_text = None THEN <<>> ELSE cond_text)
        has(p) == Contains(p, c)
    IN  IF has(S_thunder) \/ has(S_storm)
        THEN <<"extreme", "Thunderstorm / lightning risk", Some("NO OUTDOOR TRAINING")>>
        ELSE IF has(S_freezing_rain) \/ (has(S_freezing) /\ has(S_rain))
        THEN <<"extreme", "Freezing rain / ice risk", Some("NO OUTDOOR TRAINING")>>
        ELSE IF has(S_sleet) \/ has(S_ice) \/ has(S_icy)
        THEN <<"extreme", "Icy conditions", Some("NO OUTDOOR TRAINING")>>
        ELSE IF has(S_blizzard)
        THEN <<"extreme", "Blizzard / near-zero visibility", Some("NO OUTDOOR_TRAINING")>>
        ELSE IF has(S_heavy_snow)
        THEN <<"high", "Heavy snow -- visibility & slip risk", None>>
        ELSE IF has(S_snow) \/ has(S_flurr)
        THEN <<"moderate", "Snow present -- traction/visibility caution", None>>
        ELSE IF has(S_heavy_rain) \/ has(S_torrential)
        THEN <<"high", "Heavy rain -- hypothermia & slip risk", None>>
        ELSE IF has(S_rain) \/ has(S_shower)
        THEN <<"moderate", "Rain -- wet/hypothermia risk", None>>
        ELSE IF has(S_drizzle) \/ has(S_light_rain)
        THEN <<"low", "Light rain / drizzle", None>>
        ELSE IF has(S_fog) \/ has(S_mist)
        THEN <<"moderate", "Fog / reduced visibility", None>>
        ELSE <<"low", "No precipitation hazards", None>>

\* Number of vocabulary phrases a condition text is made of, at most.
MaxWords == 2

\* ------------------------------------------------------------ duty uniform
\* Mutant: the wind-chill rules are tried before the heat rules.
recommend_uniform_cold_first(temp_f, wind_chill, heat_cat_num, wbgt_applicable, precip_level) ==
    IF wind_chill # None /\ wind_chill[1] <= (0 - 20) * WcDegree
    THEN <<"Arctic clothing / extreme cold gear. No exposed skin. No outdoor training.", 3>>
    ELSE IF wind_chill # None /\ wind_chill[1] <= 0
    THEN <<"Parka + layered clothing + gloves + balaclava. Move indoors for prolonged training.", 2>>
    ELSE IF wind_chill # None /\ wind_chill[1] <= 20 * WcDegree
    THEN <<"OCP + parka + gloves + warm layers. Limit prolonged exposed activities.", 2>>
    ELSE IF wind_chill # None /\ wind_chill[1] <= 32 * WcDegree
    THEN <<"OCP + fleece + gloves recommended.", 1>>
    ELSE IF wbgt_applicable /\ heat_cat_num # None
    THEN IF heat_cat_num[1] >= 5
         THEN <<"Light clothing only; no armor; full hydration and move indoors", 3>>
         ELSE IF heat_cat_num[1] = 4
         THEN <<"Light OCP/PT, reduce load, hydrate frequently", 2>>
         ELSE IF heat_cat_num[1] = 3
         THEN <<"OCP, consider modified load and frequent water breaks", 1>>
         ELSE <<"Standard OCP/PT uniform", 0>>
    ELSE IF temp_f <= 500 /\ temp_f > 330
    THEN <<"OCP + fleece optional; monitor wind and wetness.", 1>>
    ELSE <<"Standard OCP/PT uniform", 0>>

\* recommend_uniform_option_a: <<text, severity level>>. wind_chill and
\* heat_cat_num are None or <<value>>; precip_level is not read.
recommend_uniform_option_a(temp_f, wind_chill, heat_cat_num, wbgt_applicable, precip_level) ==
    IF wbgt_applicable /\ heat_cat_num # None
    THEN IF heat_cat_num[1] >= 5
         THEN <<"Light clothing only; no armor; full hydration and move indoors", 3>>
         ELSE IF heat_cat_num[1] = 4
         THEN <<"Light OCP/PT, reduce load, hydrate frequently", 2>>
         ELSE IF heat_cat_num[1] = 3
         THEN <<"OCP, consider modified load and frequent water breaks", 1>>
         ELSE <<"Standard OCP/PT uniform", 0>>
    ELSE IF wind_chill # None /\ wind_chill[1] <= (0 - 20) * WcDegree
    THEN <<"Arctic clothing / extreme cold gear. No exposed skin. No outdoor training.", 3>>
    ELSE IF wind_chill # None /\ wind_chill[1] <= 0
    THEN <<"Parka + layered clothing + gloves + balaclava. Move indoors for prolonged training.", 2>>
    ELSE IF wind_chill # None /\ wind_chill[1] <= 20 * WcDegree
    THEN <<"OCP + parka + gloves + warm layers. Limit prolonged exposed activities.", 2>>
    ELSE IF wind_chill # None /\ wind_chill[1] <= 32 * WcDegree
    THEN <<"OCP + fleece + gloves recommended.", 1>>
    ELSE IF temp_f <= 500 /\ temp_f > 330
    THEN <<"OCP + fleece optional; monitor wind and wetness.", 1>>
    ELSE <<"Standard OCP/PT uniform", 0>>

\* -------------------------------------------------------------- PT uniform
\* The band tests of recommend_pt_uniform on the float t (tenths of a degree).
pt_uniform_band(t) ==
    IF t > 800 THEN "APFU Short-sleeve + shorts"
    ELSE IF 600 <= t /\ t <= 800 THEN "APFU Short-sleeve shirt + APFU shorts"
    ELSE IF 400 <= t /\ t <= 590 THEN "APFU Short-sleeve + APFU Long-sleeve + APFU shorts"
    ELSE IF 200 <= t /\ t <= 390
    THEN "APFU Short-sleeve + APFU Long-sleeve + APFU Pants + APFU Jacket + Fleece Cap"
    ELSE "APFU Short-sleeve + APFU Long-sleeve + APFU Pants + APFU Jacket + Fleece Cap + Gloves"

\* recommend_pt_uniform: temp_f is <<t>> for a number t, and None for a
\* value float() raises on (the except branch).
recommend_pt_uniform(temp_f) ==
    IF temp_f = None THEN "Standard PT uniform" ELSE pt_uniform_band(temp_f[1])

\* ---------------------------------------------------------- final decision
\* Python truthiness of precip_override: neither None nor "".
Truthy(precip_override) == precip_override # None /\ precip_override[1] # ""

\* The wind-chill rules (2-4) of final_training_decision; None when none fires.
cold_decision(wind_chill) ==
    IF wind_chill # None /\ wind_chill[1] <= (0 - 20) * WcDegree
    THEN Some("NO OUTDOOR TRAINING -- EXTREME COLD")
    ELSE IF wind_chill # None /\ wind_chill[1] <= 0
    THEN Some("MOVE TRAINING INDOORS / HIGH COLD RISK")
    ELSE IF wind_chill # None /\ wind_chill[1] <= 20 * WcDegree
    THEN Some("LIMIT OUTDOOR TRAINING / USE INDOORS WHEN POSSIBLE (COLD CAUTION)")
    ELSE None

\* The heat rule (6) and the default (7) of final_training_decision.
heat_decision(heat_cat_num, wbgt_applicable) ==
    IF wbgt_applicable /\ heat_cat_num # None
    THEN IF heat_cat_num[1] >= 5 THEN "NO OUTDOOR TRAINING -- EXTREME HEAT (BLACK FLAG)"
         ELSE IF heat_cat_num[1] = 4
         THEN "LIMIT OUTDOOR TRAINING / USE INDOORS WHEN POSSIBLE (HEAT)"
         ELSE IF heat_cat_num[1] = 3 THEN "TRAIN OUTDOORS WITH CAUTION (HEAT)"
         ELSE "TRAIN OUTDOORS (NO RESTRICTIONS)"
    ELSE "TRAIN OUTDOORS (NO RESTRICTIONS)"

\* Mutant: the wind-chill rules are tried before the precipitation override.
final_decision_cold_before_override(temp_f, wind_chill, heat_cat_num, wbgt_applicable, precip_override, precip_level) ==
    IF cold_decision(wind_chill) # None THEN cold_decision(wind_chill)[1]
    ELSE IF Truthy(precip_override) THEN precip_override[1]
    ELSE IF precip_level = "high"
    THEN "LIMIT OUTDOOR TRAINING / USE INDOORS WHEN POSSIBLE (PRECIPITATION)"
    ELSE heat_decision(heat_cat_num, wbgt_applicable)

\* Mutant: the heat rule is tried before the wind-chill rules.
final_decision_heat_before_cold(temp_f, wind_chill, heat_cat_num, wbgt_applicable, precip_override, precip_level) ==
    IF Truthy(precip_override) THEN precip_override[1]
    ELSE IF wbgt_applicable /\ heat_cat_num # None /\ heat_cat_num[1] >= 3
    THEN heat_decision(heat_cat_num, wbgt_applicable)
    ELSE IF cold_decision(wind_chill) # None THEN cold_decision(wind_chill)[1]
    ELSE IF precip_level = "high"
    THEN "LIMIT OUTDOOR TRAINING / USE INDOORS WHEN POSSIBLE (PRECIPITATION)"
    ELSE heat_decision(heat_cat_num, wbgt_applicable)

\* Mutant: the heat rule is tried before the precipitation-level rule.
final_decision_heat_before_precip(temp_f, wind_chill, heat_cat_num, wbgt_applicable, precip_override, precip_level) ==
    IF Truthy(precip_override) THEN precip_override[1]
    ELSE IF cold_decision(wind_chill) # None THEN cold_decision(wind_chill)[1]
    ELSE IF wbgt_applicable /\ heat_cat_num # None /\ heat_cat_num[1] >= 3
    THEN heat_decision(heat_cat_num, wbgt_applicable)
    ELSE IF precip_level = "high"
    THEN "LIMIT OUTDOOR TRAINING / USE INDOORS WHEN POSSIBLE (PRECIPITATION)"
    ELSE heat_decision(heat_cat_num, wbgt_applicable)

\* final_training_decision: first matching rule wins. temp_f is not read.
final_training_decision(temp_f, wind_chill, heat_cat_num, wbgt_applicable, precip_override, precip_level) ==
    IF Truthy(precip_override) THEN precip_override[1]
    ELSE IF cold_decision(wind_chill) # None THEN cold_decision(wind_chill)[1]
    ELSE IF precip_level = "high"
    THEN "LIMIT OUTDOOR TRAINING / USE INDOORS WHEN POSSIBLE (PRECIPITATION)"
    ELSE heat_decision(heat_cat_num, wbgt_applicable)

\* ------------------------------------------------------------------- WBGT
WBGT_CUTOFF_F == 50

\* f_to_c: (Tf - 32) * 5 / 9, from tenths of a degree F to thousandths of a
\* degree C, rounded down.
f_to_c(Tf) == ((Tf - 320) * 500) \div 9

\* c_to_f: Tc * 9 / 5 + 32, from thousandths of a degree C to hundredths of
\* a degree F, rounded down.
c_to_f(Tc) == ((Tc * 9) \div 5 + 32000) \div 10

\* The value of the arctangent formula of approx_natural_wet_bulb, in
\* thousandths of a degree C, at <<Tc (thousandths), rh (percent)>> for the
\* temperatures and humidities of the observations below.
WetBulbTable ==
    (<<-28889, 20>> :> -27154) @@ (<<-28889, 60>> :> -28934) @@ (<<-28889, 90>> :> -29389) @@
    (<<-17778, 20>> :> -16992) @@ (<<-17778, 60>> :> -18943) @@ (<<-17778, 90>> :> -18443) @@
    (<<-6667, 20>> :> -9088) @@ (<<-6667, 60>> :> -8955) @@ (<<-6667, 90>> :> -7498) @@
    (<<0, 20>> :> -4530) @@ (<<0, 60>> :> -2963) @@ (<<0, 90>> :> -930) @@
    (<<555, 20>> :> -4151) @@ (<<555, 60>> :> -2464) @@ (<<555, 90>> :> -384) @@
    (<<611, 20>> :> -4113) @@ (<<611, 60>> :> -2414) @@ (<<611, 90>> :> -329) @@
    (<<4444, 20>> :> -1499) @@ (<<4444, 60>> :> 1031) @@ (<<4444, 90>> :> 3447) @@
    (<<10000, 20>> :> 2287) @@ (<<10000, 60>> :> 6024) @@ (<<10000, 90>> :> 8920) @@
    (<<10055, 20>> :> 2324) @@ (<<10055, 60>> :> 6073) @@ (<<10055, 90>> :> 8974) @@
    (<<15555, 20>> :> 6070) @@ (<<15555, 60>> :> 11015) @@ (<<15555, 90>> :> 14391) @@
    (<<23888, 20>> :> 11741) @@ (<<23888, 60>> :> 18503) @@ (<<23888, 90>> :> 22599) @@
    (<<29444, 20>> :> 15522) @@ (<<29444, 60>> :> 23496) @@ (<<29444, 90>> :> 28072) @@
    (<<35000, 20>> :> 19302) @@ (<<35000, 60>> :> 28488) @@ (<<35000, 90>> :> 33544) @@
    (<<40555, 20>> :> 23081) @@ (<<40555, 60>> :> 33480) @@ (<<40555, 90>> :> 39016)

\* approx_natural_wet_bulb: rh is clamped to [0, 100] first.
approx_natural_wet_bulb(Tc, rh) ==
    LET clamped == IF rh < 0 THEN 0 ELSE IF rh > 100 THEN 100 ELSE rh
    IN  WetBulbTable[<<Tc, clamped>>]

\* approx_wbgt (globe_offset_c = 3.0): <<wbgt_c, Tw, Tg>>, thousandths of a
\* degree C.
approx_wbgt(Tc, rh, sunny) ==
    LET Tw == approx_natural_wet_bulb(Tc, rh)
        Tg == IF sunny THEN Tc + 3000 ELSE Tc
    IN  <<(7 * Tw + 3 * Tg) \div 10, Tw, Tg>>

\* ---------------------------------------------------------- heat category
\* Mutant: the first band test is inclusive (wbgt_f <= 78).
heat_category_inclusive78(wbgt_f) ==
    IF wbgt_f <= 7800 THEN <<"Below White", 1>>
    ELSE IF 7800 <= wbgt_f /\ wbgt_f <= 8190 THEN <<"White (Cat 1)", 1>>
    ELSE IF 8200 <= wbgt_f /\ wbgt_f <= 8490 THEN <<"Green (Cat 2)", 2>>
    ELSE IF 8500 <= wbgt_f /\ wbgt_f <= 8790 THEN <<"Yellow (Cat 3)", 3>>
    ELSE IF 8800 <= wbgt_f /\ wbgt_f <= 8990 THEN <<"Red (Cat 4)", 4>>
    ELSE <<"Black (Cat 5)", 5>>

\* heat_category_from_wbgt_f: closed bands with one-decimal upper literals.
heat_category_from_wbgt_f(wbgt_f) ==
    IF wbgt_f < 7800 THEN <<"Below White", 1>>
    ELSE IF 7800 <= wbgt_f /\ wbgt_f <= 8190 THEN <<"White (Cat 1)", 1>>
    ELSE IF 8200 <= wbgt_f /\ wbgt_f <= 8490 THEN <<"Green (Cat 2)", 2>>
    ELSE IF 8500 <= wbgt_f /\ wbgt_f <= 8790 THEN <<"Yellow (Cat 3)", 3>>
    ELSE IF 8800 <= wbgt_f /\ wbgt_f <= 8990 THEN <<"Red (Cat 4)", 4>>
    ELSE <<"Black (Cat 5)", 5>>

\* ------------------------------------------------- SpecHeat: the classifier
InitHeat ==
    /\ pc = "call"
    /\ args \in [wbgt_f : WbgtLo..WbgtHi]
    /\ ret = None

CallHeatCategory ==
    /\ pc = "call"
    /\ pc' = "done"
    /\ ret' = heat_category_from_wbgt_f(args.wbgt_f)
    /\ UNCHANGED args

NextHeat == CallHeatCategory

SpecHeat == InitHeat /\ [][NextHeat]_vars

\* The half-open table of the specification (section 4.4), in hundredths.
HalfOpenTable(w) ==
    IF w < 7800 THEN <<"Below White", 1>>
    ELSE IF w < 8200 THEN <<"White (Cat 1)", 1>>
    ELSE IF w < 8500 THEN <<"Green (Cat 2)", 2>>
    ELSE IF w < 8800 THEN <<"Yellow (Cat 3)", 3>>
    ELSE IF w < 9000 THEN <<"Red (Cat 4)", 4>>
    ELSE <<"Black (Cat 5)", 5>>

\* C3: every WBGT value, values with two decimal digits included, is
\* classified exactly as the half-open table says.
C3_EveryValueMatchesHalfOpenTable ==
    pc = "done" => ret = HalfOpenTable(args.wbgt_f)

\* C4: every WBGT value that is a whole number of tenths of a degree is
\* classified exactly as the half-open table says (so the ten boundary
\* values 77.9 ... 90.0 get the categories the specification lists).
C4_TenthsMatchHalfOpenTable ==
    (pc = "done" /\ args.wbgt_f % 10 = 0) => ret = HalfOpenTable(args.wbgt_f)

\* C4 witness: the classifier has answered Green for exactly 84.9.
C4_Witness ==
    pc = "done" /\ args.wbgt_f = 8490 /\ ret = <<"Green (Cat 2)", 2>>

\* ---------------------------------------- SpecWindChill: the wind chill
InitWindChill ==
    /\ pc = "call"
    /\ args \in [Tf : Temps, wind_mph : WindSpeeds]
    /\ ret = None

CallWindChill ==
    /\ pc = "call"
    /\ pc' = "done"
    /\ ret' = wind_chill_f(args.Tf, args.wind_mph)
    /\ UNCHANGED args

NextWindChill == CallWindChill

SpecWindChill == InitWindChill /\ [][NextWindChill]_vars

\* C5: wind_chill_f returns a value exactly when temperature_f <= 50 and
\* wind_speed_mph > 3, and None (not zero) otherwise.
C5_WindChillPresentIffApplicable ==
    pc = "done" =>
        /\ (ret # None) <=> (args.Tf <= 500 /\ args.wind_mph > 30)
        /\ ret # None => (Len(ret) = 1 /\ ret[1] \in Int)
        /\ ~(args.Tf <= 500 /\ args.wind_mph > 30) => ret # Some(0)

\* C5 witness: at exactly 50 F with wind just above 3 mph a value is returned.
C5_Witness ==
    pc = "done" /\ args.Tf = 500 /\ args.wind_mph = 31 /\ ret # None

\* ------------------------------------ SpecCondition: the interpreter alone
\* Further words of weather descriptions ("nice" holds "ice").
V_clear_sky == <<"c", "l", "e", "a", "r", " ", "s", "k", "y">>

V_nice == <<"n", "i", "c", "e">>

V_overcast_clouds == <<"o", "v", "e", "r", "c", "a", "s", "t", " ", "c", "l", "o", "u", "d", "s">>

V_severe_thunderstorms_expected == <<"s", "e", "v", "e", "r", "e", " ", "t", "h", "u", "n", "d", "e", "r", "s", "t", "o", "r", "m", "s", " ", "e", "x", "p", "e", "c", "t", "e", "d">>

V_flurries == <<"f", "l", "u", "r", "r", "i", "e", "s">>

\* The phrases condition texts are built from: every literal the interpreter
\* searches for, and the words above.
Vocabulary ==
    { S_thunder, S_storm, S_freezing_rain, S_freezing, S_rain, S_sleet, S_ice,
      S_icy, S_blizzard, S_heavy_snow, S_snow, S_flurr, S_heavy_rain,
      S_torrential, S_shower, S_drizzle, S_light_rain, S_fog, S_mist,
      V_clear_sky, V_nice, V_overcast_clouds, V_severe_thunderstorms_expected,
      V_flurries }

RECURSIVE JoinWords(_)
\* " ".join(ws)
JoinWords(ws) ==
    IF Len(ws) = 1 THEN ws[1] ELSE ws[1] \o <<" ">> \o JoinWords(Tail(ws))

LowerTexts == UNION { { JoinWords(ws) : ws \in [1..n -> Vocabulary] } : n \in 1..MaxWords }

\* Condition texts in lower case, Title Case and UPPER CASE, and the empty text.
CondTexts == {<<>>} \cup UNION { {t, title(t), upper(t)} : t \in LowerTexts }

InitCondition ==
    /\ pc = "call"
    /\ args \in [cond_text : CondTexts]
    /\ ret = None

CallInterpretCondition ==
    /\ pc = "call"
    /\ pc' = "done"
    /\ ret' = interpret_condition(args.cond_text)
    /\ UNCHANGED args

NextCondition == CallInterpretCondition

SpecCondition == InitCondition /\ [][NextCondition]_vars

\* The text matches one of rules 1-3 (thunder/storm, freezing rain, ice).
MatchesRules1to3(c) ==
    \/ Contains(S_thunder, c) \/ Contains(S_storm, c)
    \/ Contains(S_freezing_rain, c) \/ (Contains(S_freezing, c) /\ Contains(S_rain, c))
    \/ Contains(S_sleet, c) \/ Contains(S_ice, c) \/ Contains(S_icy, c)

\* C7: a text that contains "blizzard" and matches none of rules 1-3 yields
\* extreme, "Blizzard / near-zero visibility" and the override
\* "NO OUTDOOR TRAINING", spelled as in the other extreme rules.
C7_BlizzardOverrideSpelling ==
    (/\ pc = "done"
     /\ Contains(S_blizzard, lower(args.cond_text))
     /\ ~MatchesRules1to3(lower(args.cond_text)))
    => ret = <<"extreme", "Blizzard / near-zero visibility", Some("NO OUTDOOR TRAINING")>>

\* The rules of section 4.5 of the specification other than rule 4, as
\* <<phrase, result>> pairs, one per listed phrase.
SpecRulePhrases ==
    LET r1 == <<"extreme", "Thunderstorm / lightning risk", Some("NO OUTDOOR TRAINING")>>
        r2 == <<"extreme", "Freezing rain / ice risk", Some("NO OUTDOOR TRAINING")>>
        r3 == <<"extreme", "Icy conditions", Some("NO OUTDOOR TRAINING")>>
        r5 == <<"high", "Heavy snow -- visibility & slip risk", None>>
        r6 == <<"moderate", "Snow present -- traction/visibility caution", None>>
        r7 == <<"high", "Heavy rain -- hypothermia & slip risk", None>>
        r8 == <<"moderate", "Rain -- wet/hypothermia risk", None>>
        r9 == <<"low", "Light rain / drizzle", None>>
        r10 == <<"moderate", "Fog / reduced visibility", None>>
    IN  { <<S_thunder, r1>>, <<S_storm, r1>>, <<S_freezing_rain, r2>>,
          <<S_sleet, r3>>, <<S_ice, r3>>, <<S_icy, r3>>,
          <<S_heavy_snow, r5>>, <<S_snow, r6>>, <<S_flurr, r6>>,
          <<S_heavy_rain, r7>>, <<S_torrential, r7>>,
          <<S_rain, r8>>, <<S_shower, r8>>,
          <<S_drizzle, r9>>, <<S_light_rain, r9>>,
          <<S_fog, r10>>, <<S_mist, r10>> }

\* C8: a text that is exactly one listed phrase of a rule yields that rule's
\* result; "light rain" yields low, "Light rain / drizzle", no override.
\* (Rule 4, "blizzard", is the subject of C7 and is left out here.)
C8_ListedPhraseYieldsItsRule ==
    pc = "done" =>
        \A r \in SpecRulePhrases : args.cond_text = r[1] => ret = r[2]

\* ------------------------------------------- inputs of the direct calls
\* Wind-chill arguments: None, and values on and next to the band limits.
WindChillArgs ==
    {None} \cup { Some(v) : v \in { (0 - 25) * WcDegree, (0 - 20) * WcDegree,
                                    (0 - 20) * WcDegree + 1, 0, 1, 20 * WcDegree,
                                    20 * WcDegree + 1, 32 * WcDegree,
                                    32 * WcDegree + 1 } }

HeatArgs == {None} \cup { Some(n) : n \in 1..5 }

PrecipLevels == {"low", "moderate", "high", "extreme"}

\* Condition texts of the decision calls: every vocabulary phrase, the empty
\* text, and thunder / storm texts in other letter cases.
DecisionTexts ==
    {<<>>} \cup Vocabulary
    \cup { title(V_severe_thunderstorms_expected), upper(V_severe_thunderstorms_expected),
           title(S_thunder), upper(S_storm), title(S_blizzard) }

\* --------------- SpecDecision: interpreter, then final_training_decision
InitDecision ==
    /\ pc = "call"
    /\ args \in [cond_text : DecisionTexts, temp_f : {0 - 100, 950},
                 wind_chill : WindChillArgs, heat_cat_num : HeatArgs,
                 wbgt_applicable : BOOLEAN, precip_level : PrecipLevels]
    /\ ret = None

CallFinalDecision ==
    /\ pc = "call"
    /\ pc' = "done"
    /\ LET precip == interpret_condition(args.cond_text)
       IN  ret' = [precip |-> precip,
                   decision |-> final_training_decision(
                       args.temp_f, args.wind_chill, args.heat_cat_num,
                       args.wbgt_applicable, precip[3], args.precip_level)]
    /\ UNCHANGED args

NextDecision == CallFinalDecision

SpecDecision == InitDecision /\ [][NextDecision]_vars

\* C1: when the interpreter yields an override, the final decision is that
\* override, whatever the other arguments are; a text containing "thunder"
\* or "storm" in any letter case gives extreme, the override
\* "NO OUTDOOR TRAINING" and that final decision.
C1_OverrideDeterminesDecision ==
    pc = "done" =>
        /\ ret.precip[3] # None => ret.decision = ret.precip[3][1]
        /\ (Contains(S_thunder, lower(args.cond_text))
            \/ Contains(S_storm, lower(args.cond_text)))
           => /\ ret.precip[1] = "extreme"
              /\ ret.precip[3] = Some("NO OUTDOOR TRAINING")
              /\ ret.decision = "NO OUTDOOR TRAINING"

\* C1 witness: "Severe Thunderstorms Expected" with wind chill <= -20 and
\* heat severity 5 has been decided as the override.
C1_Witness ==
    /\ pc = "done"
    /\ args.cond_text = title(V_severe_thunderstorms_expected)
    /\ args.wind_chill = Some((0 - 25) * WcDegree)
    /\ args.heat_cat_num = Some(5) /\ args.wbgt_applicable
    /\ ret.decision = "NO OUTDOOR TRAINING"

\* The cold decision of the specification's rules 2-4 for a wind chill <= 20.
ColdBandDecision(wc) ==
    IF wc <= (0 - 20) * WcDegree THEN "NO OUTDOOR TRAINING -- EXTREME COLD"
    ELSE IF wc <= 0 THEN "MOVE TRAINING INDOORS / HIGH COLD RISK"
    ELSE "LIMIT OUTDOOR TRAINING / USE INDOORS WHEN POSSIBLE (COLD CAUTION)"

\* C2: without override and with wind chill present and <= 20, the decision
\* is the cold decision of the wind-chill band alone, whatever precipitation
\* level, heat severity and applicability flag are.
C2_ColdPrecedesPrecipAndHeat ==
    (/\ pc = "done"
     /\ ret.precip[3] = None
     /\ args.wind_chill # None
     /\ args.wind_chill[1] <= 20 * WcDegree)
    => ret.decision = ColdBandDecision(args.wind_chill[1])

\* C2 witness: wind chill <= -20 with heat severity 5 (Black), applicable,
\* no override: the extreme-cold message has been returned.
C2_Witness ==
    /\ pc = "done"
    /\ ret.precip[3] = None
    /\ args.wind_chill = Some((0 - 20) * WcDegree)
    /\ args.heat_cat_num = Some(5) /\ args.wbgt_applicable
    /\ args.precip_level = "high"
    /\ ret.decision = "NO OUTDOOR TRAINING -- EXTREME COLD"

\* The decision of the specification's rules 5-7.
PrecipHeatDecision(precip_level, heat_cat_num, wbgt_applicable) ==
    IF precip_level = "high"
    THEN "LIMIT OUTDOOR TRAINING / USE INDOORS WHEN POSSIBLE (PRECIPITATION)"
    ELSE IF wbgt_applicable /\ heat_cat_num # None
    THEN IF heat_cat_num[1] >= 5 THEN "NO OUTDOOR TRAINING -- EXTREME HEAT (BLACK FLAG)"
         ELSE IF heat_cat_num[1] = 4
         THEN "LIMIT OUTDOOR TRAINING / USE INDOORS WHEN POSSIBLE (HEAT)"
         ELSE IF heat_cat_num[1] = 3 THEN "TRAIN OUTDOORS WITH CAUTION (HEAT)"
         ELSE "TRAIN OUTDOORS (NO RESTRICTIONS)"
    ELSE "TRAIN OUTDOORS (NO RESTRICTIONS)"

\* C11: without override and with wind chill absent or > 20, the decision
\* follows rules 5-7 in order: precipitation level high first, whatever the
\* heat severity; then the heat severity when applicable and defined; then
\* the default. Every call returns a decision.
C11_PrecipThenHeatThenDefault ==
    pc = "done" =>
        /\ ret.decision \in STRING
        /\ (/\ ret.precip[3] = None
            /\ (args.wind_chill = None \/ args.wind_chill[1] > 20 * WcDegree))
           => ret.decision = PrecipHeatDecision(args.precip_level, args.heat_cat_num,
                                                args.wbgt_applicable)

\* C11 witness: precipitation level high with heat severity 5, applicable,
\* wind chill just above 20 and no override: the precipitation decision.
C11_Witness ==
    /\ pc = "done"
    /\ ret.precip[3] = None
    /\ args.wind_chill = Some(20 * WcDegree + 1)
    /\ args.heat_cat_num = Some(5) /\ args.wbgt_applicable
    /\ args.precip_level = "high"
    /\ ret.decision = "LIMIT OUTDOOR TRAINING / USE INDOORS WHEN POSSIBLE (PRECIPITATION)"

\* ------------------------------- SpecUniform: recommend_uniform_option_a
InitUniform ==
    /\ pc = "call"
    /\ args \in [temp_f : {0 - 100, 320, 330, 331, 500, 501, 950},
                 wind_chill : WindChillArgs, heat_cat_num : HeatArgs,
                 wbgt_applicable : BOOLEAN, precip_level : PrecipLevels]
    /\ ret = None

CallUniform ==
    /\ pc = "call"
    /\ pc' = "done"
    /\ ret' = recommend_uniform_option_a(args.temp_f, args.wind_chill, args.heat_cat_num,
                                         args.wbgt_applicable, args.precip_level)
    /\ UNCHANGED args

NextUniform == CallUniform

SpecUniform == InitUniform /\ [][NextUniform]_vars

\* The duty uniform the specification gives for a heat severity.
HeatUniform(n) ==
    IF n = 5 THEN <<"Light clothing only; no armor; full hydration and move indoors", 3>>
    ELSE IF n = 4 THEN <<"Light OCP/PT, reduce load, hydrate frequently", 2>>
    ELSE IF n = 3 THEN <<"OCP, consider modified load and frequent water breaks", 1>>
    ELSE <<"Standard OCP/PT uniform", 0>>

\* C9: with the applicability flag true and the heat severity defined, the
\* duty uniform is fixed by the heat severity alone, for every wind chill,
\* temperature and precipitation level.
C9_HeatPathWinsOverCold ==
    (pc = "done" /\ args.wbgt_applicable /\ args.heat_cat_num # None)
    => ret = HeatUniform(args.heat_cat_num[1])

\* C9 witness: heat severity 1 with wind chill <= -20 got the standard uniform.
C9_Witness ==
    /\ pc = "done"
    /\ args.wbgt_applicable /\ args.heat_cat_num = Some(1)
    /\ args.wind_chill = Some((0 - 25) * WcDegree)
    /\ ret = <<"Standard OCP/PT uniform", 0>>

\* -------------------------------------------- SpecPt: recommend_pt_uniform
InitPt ==
    /\ pc = "call"
    /\ args \in [temp_f : {None} \cup { Some(t) : t \in Temps }]
    /\ ret = None

CallPtUniform ==
    /\ pc = "call"
    /\ pc' = "done"
    /\ ret' = recommend_pt_uniform(args.temp_f)
    /\ UNCHANGED args

NextPt == CallPtUniform

SpecPt == InitPt /\ [][NextPt]_vars

ColdestPt ==
    "APFU Short-sleeve + APFU Long-sleeve + APFU Pants + APFU Jacket + Fleece Cap + Gloves"

\* C10: the coldest PT recommendation is returned exactly for temperatures
\* below 20 F; a temperature from 20 up to 80, 39.5 and 59.5 included, gets
\* the recommendation of the 20s-30s, 40s-50s or 60-80 band it lies in.
C10_PtBandsAreTotal ==
    (pc = "done" /\ args.temp_f # None) =>
        LET t == args.temp_f[1]
        IN  /\ (ret = ColdestPt) <=> (t < 200)
            /\ (200 <= t /\ t < 400) =>
                 ret = "APFU Short-sleeve + APFU Long-sleeve + APFU Pants + APFU Jacket + Fleece Cap"
            /\ (400 <= t /\ t < 600) =>
                 ret = "APFU Short-sleeve + APFU Long-sleeve + APFU shorts"
            /\ (600 <= t /\ t <= 800) => ret = "APFU Short-sleeve shirt + APFU shorts"

\* ------------------------------------------ Spec: the evaluation pipeline
\* Temperatures, humidities and winds the weather provider reports.
ObservedTemps == {0 - 200, 0, 200, 320, 330, 331, 400, 500, 501, 600, 750, 850, 950, 1050}

ObservedHumidity == {20, 60, 90}

ObservedWinds == {0, 30, 31, 100, 250, 400}

\* Cloud cover (current weather) and chance of rain / snow (forecast day).
ObservedSky ==
    { [cloud |-> 0, daily_chance_of_rain |-> 0, daily_chance_of_snow |-> 0],
      [cloud |-> 30, daily_chance_of_rain |-> 100, daily_chance_of_snow |-> 0],
      [cloud |-> 29, daily_chance_of_rain |-> 0, daily_chance_of_snow |-> 100] }

\* Descriptions the provider sends; fetch_current_weather and fetch_forecast
\* store them title-cased.
ObservedTexts ==
    { title(d) : d \in { V_clear_sky, V_overcast_clouds, S_light_rain, S_heavy_rain,
                         S_rain, V_severe_thunderstorms_expected, S_snow,
                         S_heavy_snow, S_sleet, S_freezing_rain, S_blizzard,
                         S_fog, S_drizzle } }

\* Mutant: the applicability gate is temp_f >= WBGT_CUTOFF_F.
wbgt_applicable_inclusive(temp_f) == temp_f >= WBGT_CUTOFF_F * 10

\* wbgt_applicable = temp_f > WBGT_CUTOFF_F
wbgt_applicable_of(temp_f) == temp_f > WBGT_CUTOFF_F * 10

\* The evaluation shared by the four paths: from temperature, humidity,
\* wind, the path's sunny flag and the condition text to the values handed
\* to the uniform and decision engines and their results. cold_label is the
\* heat label the path shows when WBGT is not applicable.
evaluate(tab, temp_f, rh, wind_mph, sunny, cond_text, cold_label) ==
    LET wbgt == approx_wbgt(f_to_c(temp_f), rh, sunny)
        wbgt_f == c_to_f(wbgt[1])
        wc == wind_chill_f(temp_f, wind_mph)
        wbgt_applicable == wbgt_applicable_of(temp_f)
        heat == IF wbgt_applicable
                THEN LET h == heat_category_from_wbgt_f(wbgt_f) IN <<h[1], Some(h[2])>>
                ELSE <<cold_label, None>>
        precip == interpret_condition(cond_text)
        uniform == recommend_uniform_option_a(temp_f, wc, heat[2], wbgt_applicable, precip[1])
    IN  [tab |-> tab, temp_f |-> temp_f, wbgt_f |-> wbgt_f, wc |-> wc,
         wbgt_applicable |-> wbgt_applicable,
         heat_label |-> heat[1], heat_num |-> heat[2],
         precip_level |-> precip[1], cond_note |-> precip[2],
         precip_override |-> precip[3],
         uniform |-> uniform[1], uniform_level |-> uniform[2],
         final_dec |-> final_training_decision(temp_f, wc, heat[2], wbgt_applicable,
                                               precip[3], precip[1]),
         pt_uniform |-> recommend_pt_uniform(Some(temp_f))]

\* The state after the weather has been fetched: one observation.
Init ==
    /\ pc = "fetched"
    /\ args \in [temp_f : ObservedTemps, humidity : ObservedHumidity,
                 wind_mph : ObservedWinds, sky : ObservedSky, text : ObservedTexts]
    /\ ret = None

\* main() renders the tabs in source order: TAB 1, TAB 2, TAB 3 (its
\* analysis only when the button was pressed), TAB 4.
\* TAB 1, current conditions: sunny = clouds < 30.
Tab1CurrentConditions ==
    /\ pc = "fetched"
    /\ pc' = "tab1"
    /\ ret' = evaluate("tab1", args.temp_f, args.humidity, args.wind_mph,
                       args.sky.cloud < 30, args.text, "N/A (cold)")
    /\ UNCHANGED args

\* sunny of a forecast day: max(chance of rain, chance of snow) < 30.
sunny_day(sky) ==
    (IF sky.daily_chance_of_rain >= sky.daily_chance_of_snow
     THEN sky.daily_chance_of_rain ELSE sky.daily_chance_of_snow) < 30

\* TAB 2, one day of the 7-day forecast.
Tab2ForecastDay ==
    /\ pc = "tab1"
    /\ pc' = "tab2"
    /\ ret' = evaluate("tab2", args.temp_f, args.humidity, args.wind_mph,
                       sunny_day(args.sky), args.text, "Cold")
    /\ UNCHANGED args

\* TAB 3, analyze_training_dates for one selected date: evaluated when it is
\* 0..5 days from now and the forecast holds it, a warning otherwise.
Tab3TrainingPlanner ==
    /\ pc = "tab2"
    /\ \E days_from_now \in {0 - 1, 0, 5, 6}, found \in BOOLEAN :
        IF 0 <= days_from_now /\ days_from_now <= 5
        THEN IF found
             THEN /\ pc' = "tab3"
                  /\ ret' = evaluate("tab3", args.temp_f, args.humidity, args.wind_mph,
                                     sunny_day(args.sky), args.text, "N/A (cold)")
             ELSE /\ pc' = "tab3_warning"
                  /\ ret' = [warning |-> "Forecast data not available for this date."]
        ELSE /\ pc' = "tab3_warning"
             /\ ret' = [warning |-> "This date is outside the forecast window."]
    /\ UNCHANGED args

\* TAB 4, one row of the weekly report.
Tab4WeeklyReport ==
    /\ pc \in {"tab2", "tab3", "tab3_warning"}
    /\ pc' = "tab4"
    /\ ret' = evaluate("tab4", args.temp_f, args.humidity, args.wind_mph,
                       sunny_day(args.sky), args.text, "Cold")
    /\ UNCHANGED args

Next ==
    \/ Tab1CurrentConditions
    \/ Tab2ForecastDay
    \/ Tab3TrainingPlanner
    \/ Tab4WeeklyReport

Spec == Init /\ [][Next]_vars

Evaluated == pc \in {"tab1", "tab2", "tab3", "tab4"}

\* C6: on every evaluation path the heat severity handed to the engines is a
\* number 1..5 exactly when the air temperature is above 50 F and None
\* otherwise, and the applicability flag is true exactly when the severity
\* is defined.
C6_HeatDefinedIffAbove50 ==
    Evaluated =>
        /\ (ret.heat_num # None) <=> (args.temp_f > 500)
        /\ ret.heat_num # None => ret.heat_num[1] \in 1..5
        /\ ret.wbgt_applicable <=> (ret.heat_num # None)

\* C6 witness: at exactly 50 F the planner path has evaluated the day with
\* no heat severity and the flag false.
C6_Witness ==
    /\ pc = "tab3" /\ args.temp_f = 500
    /\ ret.heat_num = None /\ ~ret.wbgt_applicable

\* low < moderate < high < extreme
SeverityRank(sev) ==
    CASE sev = "low" -> 0 [] sev = "moderate" -> 1 [] sev = "high" -> 2 [] sev = "extreme" -> 3

\* The severities of the rules of section 4.5 whose phrase occurs in the
\* lower-cased text c.
SeveritiesOfOccurringPhrases(c) ==
    LET has(p) == Contains(p, c)
    IN  (IF has(S_thunder) \/ has(S_storm) THEN {"extreme"} ELSE {})
        \cup (IF has(S_freezing_rain) \/ (has(S_freezing) /\ has(S_rain)) THEN {"extreme"} ELSE {})
        \cup (IF has(S_sleet) \/ has(S_ice) \/ has(S_icy) THEN {"extreme"} ELSE {})
        \cup (IF has(S_blizzard) THEN {"extreme"} ELSE {})
        \cup (IF has(S_heavy_snow) THEN {"high"} ELSE {})
        \cup (IF has(S_snow) \/ has(S_flurr) THEN {"moderate"} ELSE {})
        \cup (IF has(S_heavy_rain) \/ has(S_torrential) THEN {"high"} ELSE {})
        \cup (IF has(S_rain) \/ has(S_shower) THEN {"moderate"} ELSE {})
        \cup (IF has(S_drizzle) \/ has(S_light_rain) THEN {"low"} ELSE {})
        \cup (IF has(S_fog) \/ has(S_mist) THEN {"moderate"} ELSE {})

\* C12: the severity returned for a text is at least the severity of every
\* rule whose phrase occurs in the text (a text with "snow" and "heavy rain"
\* yields high, a text with "drizzle" and "fog" yields moderate).
C12_SeverityIsMaxOfOccurringPhrases ==
    pc = "done" =>
        \A sev \in SeveritiesOfOccurringPhrases(lower(args.cond_text)) :
            SeverityRank(ret[1]) >= SeverityRank(sev)

\* The duty-uniform severity level the pipeline gives an observation with
\* heat not applicable: wind chill from temperature and wind, no severity.
ColdDutyLevel(temp_f, wind_mph) ==
    recommend_uniform_option_a(temp_f, wind_chill_f(temp_f, wind_mph), None, FALSE, "low")[2]

\* C13: with heat not applicable (temperature <= 50 F) the duty-uniform
\* severity level of an evaluated observation is at least the level of
\* every warmer observation (still <= 50 F) with the same wind speed.
C13_DutyLevelMonotonicInCold ==
    (Evaluated /\ args.temp_f <= 500) =>
        \A warmer \in ObservedTemps :
            (args.temp_f < warmer /\ warmer <= 500)
            => ret.uniform_level >= ColdDutyLevel(warmer, args.wind_mph)

\* The decisions that contain "NO OUTDOOR" (the test of get_status_color).
StopDecisions ==
    { "NO OUTDOOR TRAINING", "NO OUTDOOR_TRAINING",
      "NO OUTDOOR TRAINING -- EXTREME COLD",
      "NO OUTDOOR TRAINING -- EXTREME HEAT (BLACK FLAG)" }

\* C14: whenever the duty uniform of an observation has severity level 3,
\* the final decision for the same observation is a stop decision, for
\* every precipitation level.
C14_Level3UniformMeansStopDecision ==
    (Evaluated /\ ret.uniform_level = 3) => ret.final_dec \in StopDecisions

\* C15: wind chill and heat severity are never both defined for one
\* observation: wind chill only at temperature <= 50 F, heat severity only
\* above 50 F, so a cold rule (2-4) and the heat rule (6) of the decision
\* engine never both match.
C15_WindChillAndHeatExclusive ==
    Evaluated =>
        /\ ~(ret.wc # None /\ ret.heat_num # None)
        /\ ret.wc # None => args.temp_f <= 500
        /\ ret.heat_num # None => args.temp_f > 500
        /\ ~(cold_decision(ret.wc) # None /\ ret.wbgt_applicable /\ ret.heat_num # None)

\* C15 witness: at exactly 50 F with wind above 3 mph the weekly report has
\* a wind chill and no heat severity.
C15_Witness ==
    /\ pc = "tab4" /\ args.temp_f = 500 /\ args.wind_mph = 31
    /\ ret.wc # None /\ ret.heat_num = None

====
